---------------------------- MODULE Spec2Model ----------------------------
(*************************************************************************)
(* A model of data_structures/binary_tree/b_tree.py: the BTree node      *)
(* class with search, insertion with median split, and deletion with     *)
(* rebalancing.                                                          *)
(*                                                                       *)
(* BTree objects live in a heap: heap[n] is the object with identity n,  *)
(* a record of its keys, children (identities) and parent (identity or   *)
(* None).  heap[1] is the object the caller created with BTree(order).   *)
(* Every method is an operator from a heap to an outcome: the heap after *)
(* the call, the returned value, and the exception raised, if any.       *)
(*************************************************************************)
EXTENDS Integers, Sequences, FiniteSets, TLC

\* ---------------------------------------------------------------- bounds
MaxOrder    == 3    \* orders 2..MaxOrder are tried
MaxVal      == 5    \* values 1..MaxVal in Spec
MaxOps      == 6    \* calls per behaviour in Spec
MaxInsVal   == 11   \* values 1..MaxInsVal in SpecInsert
MaxBuildVal == 7    \* values 1..MaxBuildVal in SpecInsRem
MaxInsRemOps == 9   \* calls per behaviour in SpecInsRem
MaxRunVal   == 9    \* values 1..MaxRunVal in SpecRuns
MaxRunOps   == 10   \* calls per behaviour in SpecRuns
MaxExtra    == 1    \* calls besides the scripted inserts in SpecScenario
MaxDepth    == 24   \* nested method calls one call may reach

VARIABLES order,    \* self.order, shared by every node of the tree
          heap,     \* the BTree objects
          stored,   \* the values inserted and not removed since (abstract set)
          op,       \* the last call: "init", "insert" or "remove"
          arg,      \* its argument
          result,   \* what it returned ("True", "False", "None") or raised
          nops,     \* number of calls made
          events    \* what the rebalancing helpers did during the last call

vars == <<order, heap, stored, op, arg, result, nops, events>>

None == 0
Root == 1

\* ------------------------------------------------------- Python lists
\* s[i] with Python's 0-based and negative indices
InRange(s, i) == i >= 0 - Len(s) /\ i < Len(s)
At(s, i) == IF i >= 0 THEN s[i + 1] ELSE s[Len(s) + i + 1]
SetAt(s, i, x) == IF i >= 0 THEN [s EXCEPT ![i + 1] = x]
                  ELSE [s EXCEPT ![Len(s) + i + 1] = x]
\* a slice bound, clamped as Python clamps it
Clamp(s, i) == IF i < 0 THEN (IF Len(s) + i < 0 THEN 0 ELSE Len(s) + i)
               ELSE IF i > Len(s) THEN Len(s) ELSE i
\* s[a:b]
Slice(s, a, b) == SubSeq(s, Clamp(s, a) + 1, Clamp(s, b))
\* s[a:]
SliceFrom(s, a) == SubSeq(s, Clamp(s, a) + 1, Len(s))
\* s.insert(i, x) for 0 <= i <= len(s)
InsertAt(s, i, x) == SubSeq(s, 1, i) \o <<x>> \o SubSeq(s, i + 1, Len(s))
\* del s[i]
DelAt(s, i) == LET j == IF i >= 0 THEN i + 1 ELSE Len(s) + i + 1
               IN  SubSeq(s, 1, j - 1) \o SubSeq(s, j + 1, Len(s))
\* x in s, and s.index(x)
Has(s, x) == \E i \in 1..Len(s) : s[i] = x
IndexOf(s, x) == (CHOOSE i \in 1..Len(s) :
                     s[i] = x /\ \A j \in 1..(i - 1) : s[j] # x) - 1
\* the loop "for i ...: if keys[i] == value: ...; if keys[i] > value: ..."
\* stops at the first i with keys[i] >= value; len(keys) when it runs out
FirstGE(k, v) == IF \E i \in 1..Len(k) : k[i] >= v
                 THEN (CHOOSE i \in 1..Len(k) :
                          k[i] >= v /\ \A j \in 1..(i - 1) : k[j] < v) - 1
                 ELSE Len(k)
\* the loop "for i ...: if keys[i] > median: ..." of _insert_recurse
FirstGT(k, v) == IF \E i \in 1..Len(k) : k[i] > v
                 THEN (CHOOSE i \in 1..Len(k) :
                          k[i] > v /\ \A j \in 1..(i - 1) : k[j] <= v) - 1
                 ELSE Len(k)

\* ------------------------------------------------------- outcomes
Ok(h, r) == [h |-> h, r |-> r, exc |-> "none"]
Raise(h, e) == [h |-> h, r |-> "None", exc |-> e]
Failed(o) == o.exc # "none"
\* "callee(...); return r": an exception of the callee propagates
Returning(o, r) == IF Failed(o) THEN o ELSE Ok(o.h, r)

\* Every method takes the depth d of its frame on the call stack; the
\* interpreter raises RecursionError in a frame deeper than it allows.
TooDeep(d) == d > MaxDepth

\* ------------------------------------------------------- the tree
RECURSIVE AppendNew(_, _)
AppendNew(seq, cand) ==
    IF cand = <<>> THEN seq
    ELSE AppendNew(IF Has(seq, Head(cand)) THEN seq
                   ELSE Append(seq, Head(cand)),
                   Tail(cand))

\* the nodes of the tree: those the children sequences reach from the root
RECURSIVE WalkChildren(_, _, _)
WalkChildren(h, seq, i) ==
    IF i > Len(seq) THEN seq
    ELSE WalkChildren(h, AppendNew(seq, h[seq[i]].children), i + 1)

Subtree(h, n) == {WalkChildren(h, <<n>>, 1)[i] :
                     i \in 1..Len(WalkChildren(h, <<n>>, 1))}
KeysOf(h, n) == {h[n].keys[i] : i \in 1..Len(h[n].keys)}
SubtreeKeys(h, n) == UNION {KeysOf(h, m) : m \in Subtree(h, n)}
Greatest(S) == IF S = {} THEN None ELSE CHOOSE x \in S : \A y \in S : y <= x
Least(S) == IF S = {} THEN None ELSE CHOOSE x \in S : \A y \in S : x <= y
IsKey(s, i, x) == InRange(s, i) /\ At(s, i) = x
\* how many times the nodes below n hold the key v
Occurrences(h, n, v) ==
    Cardinality(UNION {{<<m, i>> : i \in {j \in 1..Len(h[m].keys) :
                                              h[m].keys[j] = v}} :
                          m \in Subtree(h, n)})

\* The record of what the helpers of the running call did travels with the
\* heap, in the caller's node, so that it follows the control flow.
Begin(h) == [h EXCEPT ![Root] = [keys |-> @.keys, children |-> @.children,
                                 parent |-> @.parent, log |-> {}]]
Log(h, e) == [h EXCEPT ![Root].log = @ \cup {e}]
Pos(s, x) == IF Has(s, x) THEN IndexOf(s, x) ELSE -1

\* BTree(order, keys, parent, children)
NewNode(k, p, c) == [keys |-> k, children |-> c, parent |-> p]


RECURSIVE Contains(_, _, _)
RECURSIVE Maximum(_, _, _)
RECURSIVE Minimum(_, _, _)
RECURSIVE Insert(_, _, _, _)
RECURSIVE InsertMedianSplit(_, _, _)
RECURSIVE InsertRecurse(_, _, _, _, _, _)
RECURSIVE Remove(_, _, _, _)
RECURSIVE RemoveRebalance(_, _, _)
RECURSIVE RemoveRotateLeft(_, _, _, _)
RECURSIVE RemoveRotateRight(_, _, _, _)
RECURSIVE RemoveCombineLeft(_, _, _, _)

\* ------------------------------------------------------- search
\* value in self: "True", "False", or the exception raised
Contains(h, self, value) ==
    LET k == h[self].keys
        c == h[self].children
        i == FirstGE(k, value)
    IN  IF i < Len(k) /\ k[i + 1] = value THEN "True"
        ELSE IF i < Len(k)
             THEN IF c = <<>> THEN "False"
                  ELSE IF ~InRange(c, i) THEN "IndexError"
                  ELSE Contains(h, At(c, i), value)
        ELSE IF c = <<>> THEN "False"
        ELSE Contains(h, At(c, -1), value)

\* self.maximum(): r is the value
Maximum(h, self, d) ==
    IF TooDeep(d) THEN Raise(h, "RecursionError")
    ELSE IF h[self].children # <<>>
    THEN Maximum(h, At(h[self].children, -1), d + 1)
    ELSE IF h[self].keys = <<>> THEN Raise(h, "IndexError")
         ELSE Ok(h, At(h[self].keys, -1))

\* self.minimum(): r is the value
Minimum(h, self, d) ==
    IF TooDeep(d) THEN Raise(h, "RecursionError")
    ELSE IF h[self].children # <<>>
    THEN Minimum(h, At(h[self].children, 0), d + 1)
    ELSE IF h[self].keys = <<>> THEN Raise(h, "IndexError")
         ELSE Ok(h, At(h[self].keys, 0))

\* self.num_children
NumChildren(h, self) == Len(h[self].children)

\* self.left_sibling: r is the sibling or None
LeftSibling(h, self) ==
    IF h[self].parent = None THEN Ok(h, None)
    ELSE LET pc == h[h[self].parent].children
         IN  IF ~Has(pc, self) THEN Raise(h, "ValueError")
             ELSE IF IndexOf(pc, self) = 0 THEN Ok(h, None)
             ELSE Ok(h, At(pc, IndexOf(pc, self) - 1))

\* self.right_sibling: r is the sibling or None
RightSibling(h, self) ==
    IF h[self].parent = None THEN Ok(h, None)
    ELSE LET pc == h[h[self].parent].children
         IN  IF ~Has(pc, self) THEN Raise(h, "ValueError")
             ELSE IF IndexOf(pc, self) = NumChildren(h, h[self].parent) - 1
                  THEN Ok(h, None)
             ELSE Ok(h, At(pc, IndexOf(pc, self) + 1))

\* ------------------------------------------------------- insertion
\* self._insert_fix_parent_refs()
InsertFixParentRefs(h, self) ==
    [n \in DOMAIN h |->
        IF Has(h[self].children, n) THEN [h[n] EXCEPT !.parent = self]
        ELSE h[n]]

\* self.insert(value)
Insert(h, self, value, d) ==
    LET k == h[self].keys
        c == h[self].children
        i == FirstGE(k, value)
    IN  IF TooDeep(d) THEN Raise(h, "RecursionError")
        ELSE IF c # <<>>
        THEN IF i < Len(k) /\ k[i + 1] = value THEN Ok(h, "False")
             ELSE IF i < Len(k)
                  THEN IF ~InRange(c, i) THEN Raise(h, "IndexError")
                       ELSE Insert(h, At(c, i), value, d + 1)
             ELSE Insert(h, At(c, -1), value, d + 1)
        ELSE IF i < Len(k) /\ k[i + 1] = value THEN Ok(h, "False")
             ELSE IF Len(k) + 1 > order
                  THEN Returning(InsertMedianSplit(
                                    [h EXCEPT ![self].keys = InsertAt(k, i, value)],
                                    self, d + 1), "True")
                  ELSE Ok([h EXCEPT ![self].keys = InsertAt(k, i, value)], "True")

\* a split of the root that leaves the grandchildren's parent as it was
InsertMedianSplitNoRefs(h, self, d) ==
    LET k == h[self].keys
        c == h[self].children
        median_index == Len(k) \div 2
        a == Len(h) + 1
        b == Len(h) + 2
    IN  IF h[self].parent = None
        THEN Ok([h EXCEPT ![self].keys = <<At(k, median_index)>>,
                          ![self].children = <<a, b>>]
                  \o <<NewNode(Slice(k, 0, median_index), self,
                               Slice(c, 0, median_index + 1)),
                        NewNode(SliceFrom(k, median_index + 1), self,
                               SliceFrom(c, median_index + 1))>>, "None")
        ELSE InsertRecurse(h, h[self].parent, At(k, median_index),
                           Slice(k, 0, median_index),
                           SliceFrom(k, median_index + 1), d + 1)

\* a split of the root that puts a new root above it: the node keeps the
\* left half and becomes a child of the new node
InsertMedianSplitNewRoot(h, self, d) ==
    LET k == h[self].keys
        c == h[self].children
        median_index == Len(k) \div 2
        a == Len(h) + 1
        b == Len(h) + 2
    IN  IF h[self].parent = None
        THEN Ok(InsertFixParentRefs(
                   [h EXCEPT ![self].keys = Slice(k, 0, median_index),
                             ![self].children = Slice(c, 0, median_index + 1),
                             ![self].parent = a]
                     \o <<NewNode(<<At(k, median_index)>>, None, <<self, b>>),
                           NewNode(SliceFrom(k, median_index + 1), a,
                                   SliceFrom(c, median_index + 1))>>, b),
                "None")
        ELSE InsertRecurse(h, h[self].parent, At(k, median_index),
                           Slice(k, 0, median_index),
                           SliceFrom(k, median_index + 1), d + 1)

\* self._insert_median_split()
InsertMedianSplit(h, self, d) ==
    LET k == h[self].keys
        c == h[self].children
        median_index == Len(k) \div 2
        median == At(k, median_index)
        left == Slice(k, 0, median_index)
        right == SliceFrom(k, median_index + 1)
        left_children == IF c # <<>> THEN Slice(c, 0, median_index + 1)
                         ELSE <<>>
        right_children == IF c # <<>> THEN SliceFrom(c, median_index + 1)
                          ELSE <<>>
        a == Len(h) + 1
        b == Len(h) + 2
    IN  IF TooDeep(d) THEN Raise(h, "RecursionError")
        ELSE IF h[self].parent = None
        THEN LET h1 == [h EXCEPT ![self].keys = <<median>>,
                                 ![self].children = <<a, b>>]
                 h2 == h1 \o <<NewNode(left, self, left_children),
                               NewNode(right, self, right_children)>>
             IN  Ok(InsertFixParentRefs(InsertFixParentRefs(h2, a), b), "None")
        ELSE InsertRecurse(h, h[self].parent, median, left, right, d + 1)

\* self._insert_recurse(median, left, right)
InsertRecurse(h, self, median, left, right, d) ==
    LET k == h[self].keys
        c == h[self].children
        i == FirstGT(k, median)
        a == Len(h) + 1
        b == Len(h) + 2
        k1 == InsertAt(k, i, median)
        c1 == IF i < Len(k)
              THEN Slice(c, 0, i) \o <<a, b>> \o SliceFrom(c, i + 1)
              ELSE Slice(c, 0, -1) \o <<a, b>>
        h1 == [h EXCEPT ![self].keys = k1, ![self].children = c1]
                 \o <<NewNode(left, self, <<>>), NewNode(right, self, <<>>)>>
    IN  IF TooDeep(d) THEN Raise(h, "RecursionError")
        ELSE IF Len(k1) > order THEN InsertMedianSplit(h1, self, d + 1)
        ELSE Ok(h1, "None")


\* ------------------------------------------------------- deletion
\* self.remove(value)
Remove(h, self, value, d) ==
    LET k == h[self].keys
        c == h[self].children
        i == FirstGE(k, value)
        Replace(pred) ==
            IF Failed(pred) THEN Raise(h, pred.exc)
            ELSE Remove(Log([h EXCEPT ![self].keys = SetAt(k, i, pred.r)],
                            [kind |-> "replace", value |-> value,
                             pred |-> pred.r]),
                        At(c, i), pred.r, d + 1)
    IN  IF TooDeep(d) THEN Raise(h, "RecursionError")
        ELSE IF c # <<>>
        THEN IF i < Len(k) /\ k[i + 1] = value
             THEN IF ~InRange(c, i) THEN Raise(h, "IndexError")
                  ELSE Replace(Maximum(h, At(c, i), d + 1))
             ELSE IF i < Len(k)
                  THEN IF ~InRange(c, i) THEN Raise(h, "IndexError")
                       ELSE Remove(h, At(c, i), value, d + 1)
             ELSE Remove(h, At(c, -1), value, d + 1)
        ELSE IF i < Len(k) /\ k[i + 1] = value
             THEN IF Len(k) - 1 < order \div 2
                  THEN Returning(RemoveRebalance(
                                    [h EXCEPT ![self].keys = DelAt(k, i)], self,
                                    d + 1),
                                 "True")
                  ELSE Ok([h EXCEPT ![self].keys = DelAt(k, i)], "True")
             ELSE IF i < Len(k) THEN Ok(h, "False")
             ELSE Ok(h, "None")

\* a rebalance that, where no rotation applies, rebalances again instead of
\* merging: the recursion C13 excludes
RemoveRebalanceAgain(h, self, d) ==
    LET ls == LeftSibling(h, self)
        rs == RightSibling(h, self)
    IN  IF TooDeep(d) THEN Raise(h, "RecursionError")
        ELSE IF h[self].parent = None THEN Ok(h, "None")
        ELSE IF Failed(ls) THEN Raise(h, ls.exc)
        ELSE IF ls.r # None /\ NumChildren(h, ls.r) > order
             THEN RemoveRotateRight(h, h[self].parent, self, d + 1)
        ELSE IF Failed(rs) THEN Raise(h, rs.exc)
        ELSE IF rs.r # None /\ NumChildren(h, rs.r) > order
             THEN RemoveRotateLeft(h, h[self].parent, self, d + 1)
        ELSE RemoveRebalance(h, self, d + 1)

\* a rebalance that, finding no left sibling, hands the node itself to
\* _remove_combine_left: the merge C17 excludes
RemoveRebalanceSelf(h, self, d) ==
    LET ls == LeftSibling(h, self)
        rs == RightSibling(h, self)
        pc == h[h[self].parent].children
        Taken(branch) ==
            Log(h, [kind |-> "rebalance", branch |-> branch,
                    leaf |-> h[self].children = <<>>,
                    pos |-> Pos(pc, self), passed |-> Pos(pc, self)])
    IN  IF TooDeep(d) THEN Raise(h, "RecursionError")
        ELSE IF h[self].parent = None THEN Ok(h, "None")
        ELSE IF Failed(ls) THEN Raise(h, ls.exc)
        ELSE IF ls.r # None /\ NumChildren(h, ls.r) > order
             THEN RemoveRotateRight(Taken("rotate_right"),
                                    h[self].parent, self, d + 1)
        ELSE IF Failed(rs) THEN Raise(h, rs.exc)
        ELSE IF rs.r # None /\ NumChildren(h, rs.r) > order
             THEN RemoveRotateLeft(Taken("rotate_left"),
                                   h[self].parent, self, d + 1)
        ELSE RemoveCombineLeft(Taken(IF ls.r # None THEN "combine_left"
                                     ELSE "combine_right"),
                               h[self].parent, self, d + 1)

\* self._remove_rebalance()
RemoveRebalance(h, self, d) ==
    LET ls == LeftSibling(h, self)
        rs == RightSibling(h, self)
        pc == h[h[self].parent].children
        Taken(branch, passed) ==
            Log(h, [kind |-> "rebalance", branch |-> branch,
                    leaf |-> h[self].children = <<>>,
                    pos |-> Pos(pc, self), passed |-> Pos(pc, passed)])
    IN  IF TooDeep(d) THEN Raise(h, "RecursionError")
        ELSE IF h[self].parent = None THEN Ok(h, "None")
        ELSE IF Failed(ls) THEN Raise(h, ls.exc)
        ELSE IF ls.r # None /\ NumChildren(h, ls.r) > order
             THEN RemoveRotateRight(Taken("rotate_right", self),
                                    h[self].parent, self, d + 1)
        ELSE IF Failed(rs) THEN Raise(h, rs.exc)
        ELSE IF rs.r # None /\ NumChildren(h, rs.r) > order
             THEN RemoveRotateLeft(Taken("rotate_left", self),
                                   h[self].parent, self, d + 1)
        ELSE IF ls.r # None
             THEN RemoveCombineLeft(Taken("combine_left", self),
                                    h[self].parent, self, d + 1)
        ELSE RemoveCombineLeft(Taken("combine_right", rs.r),
                               h[self].parent, rs.r, d + 1)

\* self._remove_rotate_left(dest)
RemoveRotateLeft(h, self, dest, d) ==
    LET index == IndexOf(h[self].children, dest)
        \* self.children[index+1].remove(self.keys[index])
        Rotated(o) ==
            IF Failed(o) THEN o
            ELSE Ok(Log(o.h, [kind |-> "rotate", dir |-> "left",
                              into_dest |-> Has(o.h[dest].keys,
                                                At(h[self].keys, index)),
                              moved_up |-> IsKey(o.h[self].keys, index,
                                 Least(SubtreeKeys(h,
                                      At(h[self].children, index + 1)))),
                              same_keys |-> SubtreeKeys(o.h, Root)
                                               = SubtreeKeys(h, Root)]),
                    "None")
        Take(h2) ==
            Rotated(Remove(h2, At(h2[self].children, index + 1),
                           At(h2[self].keys, index), d + 1))
        \* self.keys[index] = self.children[index+1].minimum()
        Separate(h1, mn) ==
            IF Failed(mn) THEN Raise(h1, mn.exc)
            ELSE IF ~InRange(h1[self].keys, index) THEN Raise(h1, "IndexError")
            ELSE Take([h1 EXCEPT ![self].keys = SetAt(@, index, mn.r)])
        Fetch(h1) ==
            IF ~InRange(h1[self].children, index + 1)
            THEN Raise(h1, "IndexError")
            ELSE Separate(h1, Minimum(h1, At(h1[self].children, index + 1),
                                      d + 1))
        \* dest.insert(self.keys[index])
        Rotate(s1) == IF Failed(s1) THEN s1 ELSE Fetch(s1.h)
    IN  IF TooDeep(d) THEN Raise(h, "RecursionError")
        ELSE IF ~Has(h[self].children, dest) THEN Raise(h, "ValueError")
        ELSE IF ~InRange(h[self].keys, index) THEN Raise(h, "IndexError")
        ELSE Rotate(Insert(h, dest, At(h[self].keys, index), d + 1))

\* self._remove_rotate_right(dest)
RemoveRotateRight(h, self, dest, d) ==
    LET index == IndexOf(h[self].children, dest) - 1
        \* self.children[index].remove(self.keys[index])
        Rotated(o) ==
            IF Failed(o) THEN o
            ELSE Ok(Log(o.h, [kind |-> "rotate", dir |-> "right",
                              into_dest |-> Has(o.h[dest].keys,
                                                At(h[self].keys, index)),
                              moved_up |-> IsKey(o.h[self].keys, index,
                                 Greatest(SubtreeKeys(h,
                                      At(h[self].children, index)))),
                              same_keys |-> SubtreeKeys(o.h, Root)
                                               = SubtreeKeys(h, Root)]),
                    "None")
        Take(h2) ==
            Rotated(Remove(h2, At(h2[self].children, index),
                           At(h2[self].keys, index), d + 1))
        \* self.keys[index] = self.children[index].maximum()
        Separate(h1, mx) ==
            IF Failed(mx) THEN Raise(h1, mx.exc)
            ELSE IF ~InRange(h1[self].keys, index) THEN Raise(h1, "IndexError")
            ELSE Take([h1 EXCEPT ![self].keys = SetAt(@, index, mx.r)])
        Fetch(h1) ==
            IF ~InRange(h1[self].children, index)
            THEN Raise(h1, "IndexError")
            ELSE Separate(h1, Maximum(h1, At(h1[self].children, index), d + 1))
        \* dest.insert(self.keys[index])
        Rotate(s1) == IF Failed(s1) THEN s1 ELSE Fetch(s1.h)
    IN  IF TooDeep(d) THEN Raise(h, "RecursionError")
        ELSE IF ~Has(h[self].children, dest) THEN Raise(h, "ValueError")
        ELSE IF ~InRange(h[self].keys, index) THEN Raise(h, "IndexError")
        ELSE Rotate(Insert(h, dest, At(h[self].keys, index), d + 1))

\* self._remove_combine_left(child)
RemoveCombineLeft(h, self, child, d) ==
    LET index == IndexOf(h[self].children, child) - 1
        left == At(h[self].children, index)
        \* if len(self.keys) < self.order // 2: self._remove_rebalance()
        Propagate(h5) ==
            IF Len(h5[self].keys) < order \div 2
            THEN RemoveRebalance(h5, self, d + 1)
            ELSE Ok(h5, "None")
        Merged(h5) ==
            Propagate(Log(h5,
               [kind |-> "combine",
                child_pos |-> Pos(h[self].children, child), left_pos |-> index,
                joined |-> /\ h5[left].keys = h[left].keys
                                 \o <<At(h[self].keys, index)>> \o h[child].keys
                           /\ h5[left].children = h[left].children
                                 \o h[child].children,
                key_gone |-> Len(h5[self].keys) = Len(h[self].keys) - 1,
                child_gone |-> /\ ~Has(h5[self].children, child)
                               /\ Len(h5[self].children)
                                     = Len(h[self].children) - 1]))
        \* del self.keys[index]
        Unlink(h4) ==
            IF ~InRange(h4[self].keys, index) THEN Raise(h4, "IndexError")
            ELSE Merged([h4 EXCEPT ![self].keys = DelAt(@, index)])
        \* left.children += child.children; left._insert_fix_parent_refs()
        AddChildren(h2) ==
            Unlink(InsertFixParentRefs(
                      [h2 EXCEPT ![left].children = @ \o h2[child].children],
                      left))
        \* left.keys += child.keys
        AddKeys(h1) ==
            AddChildren([h1 EXCEPT ![left].keys = @ \o h1[child].keys])
    IN  IF TooDeep(d) THEN Raise(h, "RecursionError")
        ELSE IF ~Has(h[self].children, child) THEN Raise(h, "ValueError")
        ELSE IF ~InRange(h[self].children, index) THEN Raise(h, "IndexError")
        ELSE IF ~InRange(h[self].keys, index) THEN Raise(h, "IndexError")
        ELSE \* left.keys.append(self.keys[index])
             AddKeys([h EXCEPT ![left].keys =
                                  Append(@, At(h[self].keys, index))])

\* ------------------------------------------------------- object identity
\* Objects no reference leads to are collected, and an identity carries no
\* information beyond equality: the heap is kept as the objects that
\* references (children, parent) reach from the caller's node, numbered in
\* the order a breadth-first walk meets them.
RECURSIVE Walk(_, _, _)
Walk(h, seq, i) ==
    IF i > Len(seq) THEN seq
    ELSE LET n == seq[i]
             refs == h[n].children \o
                     (IF h[n].parent = None THEN <<>> ELSE <<h[n].parent>>)
         IN  Walk(h, AppendNew(seq, refs), i + 1)

Collect(h) ==
    LET live == Walk(h, <<Root>>, 1)
        id(n) == IF n = None THEN None ELSE IndexOf(live, n) + 1
    IN  [j \in 1..Len(live) |->
            [keys     |-> h[live[j]].keys,
             children |-> [x \in 1..Len(h[live[j]].children) |->
                              id(h[live[j]].children[x])],
             parent   |-> id(h[live[j]].parent)]]

\* ------------------------------------------------------- the caller
Orders == 2..MaxOrder
IsExc(r) == r \notin {"True", "False", "None"}

\* tree = BTree(order)
Init ==
    /\ order \in Orders
    /\ heap = <<NewNode(<<>>, None, <<>>)>>
    /\ stored = {}
    /\ op = "init"
    /\ arg = 0
    /\ result = "None"
    /\ nops = 0
    /\ events = {}

Returned(o) == IF Failed(o) THEN o.exc ELSE o.r

\* the caller sees the value returned or the exception raised, and the tree
\* as the call left it
Outcome(o) ==
    /\ heap' = Collect(o.h)
    /\ result' = Returned(o)
    /\ events' = o.h[Root].log

\* tree.insert(value)
DoInsert(value) ==
    /\ ~IsExc(result)
    /\ Outcome(Insert(Begin(heap), Root, value, 1))
    /\ stored' = stored \cup {value}
    /\ op' = "insert"
    /\ arg' = value
    /\ nops' = nops + 1
    /\ UNCHANGED order

\* tree.remove(value)
DoRemove(value) ==
    /\ ~IsExc(result)
    /\ Outcome(Remove(Begin(heap), Root, value, 1))
    /\ stored' = stored \ {value}
    /\ op' = "remove"
    /\ arg' = value
    /\ nops' = nops + 1
    /\ UNCHANGED order

\* any mix of insert and remove calls
Next ==
    \/ \E value \in 1..MaxVal : nops < MaxOps /\ DoInsert(value)
    \/ \E value \in 1..MaxVal : nops < MaxOps /\ DoRemove(value)

Spec == Init /\ [][Next]_vars

\* inserts of distinct values only
NextInsert ==
    \E value \in 1..MaxInsVal : value \notin stored /\ DoInsert(value)

SpecInsert == Init /\ [][NextInsert]_vars

\* a tree is built by inserting distinct values, then values are removed
NextInsRem ==
    \/ \E value \in 1..MaxBuildVal :
          op # "remove" /\ value \notin stored /\ DoInsert(value)
    \/ \E value \in 1..MaxBuildVal :
          nops < MaxInsRemOps /\ DoRemove(value)

SpecInsRem == Init /\ [][NextInsRem]_vars

\* values arrive in sorted runs, each insert extending the range of the
\* values stored; then values are removed
Extends(value) ==
    \/ stored = {}
    \/ value = Greatest(stored) + 1
    \/ value = Least(stored) - 1

NextRuns ==
    \/ \E value \in 1..MaxRunVal :
          op # "remove" /\ Extends(value) /\ DoInsert(value)
    \/ \E value \in 1..MaxRunVal :
          nops < MaxRunOps /\ DoRemove(value)

SpecRuns == Init /\ [][NextRuns]_vars

\* the scripted inserts of test_insert_balancing, into a tree of order 4;
\* between them the caller may insert again a value already inserted, or
\* remove one not inserted yet
ScenarioOrder == 4
Scenario == <<0, -2, 2, -4, 4, 6, 8, 10, -6, -8, -10, 1, 3, 5, 9,
              -1, -3, -5, -9>>
Scripted == Cardinality(stored)

InitScenario ==
    /\ order = ScenarioOrder
    /\ heap = <<NewNode(<<>>, None, <<>>)>>
    /\ stored = {}
    /\ op = "init"
    /\ arg = 0
    /\ result = "None"
    /\ nops = 0
    /\ events = {}

NextScenario ==
    \/ Scripted < Len(Scenario) /\ DoInsert(Scenario[Scripted + 1])
    \/ \E i \in 1..Scripted :
          nops - Scripted < MaxExtra /\ DoInsert(Scenario[i])
    \/ \E i \in Scripted + 1..Len(Scenario) :
          nops - Scripted < MaxExtra /\ DoRemove(Scenario[i])

SpecScenario == InitScenario /\ [][NextScenario]_vars


\* ------------------------------------------------------- the tree
TreeNodes == Subtree(heap, Root)
IsLeaf(n) == heap[n].children = <<>>
Completed == ~IsExc(result)
InTree(v) == IF v \in stored THEN "True" ELSE "False"

\* the depths at which the leaves below n lie, n being at depth d
RECURSIVE LeafDepths(_, _, _)
LeafDepths(h, n, d) ==
    IF h[n].children = <<>> THEN {d}
    ELSE UNION {LeafDepths(h, h[n].children[i], d + 1) :
                   i \in 1..Len(h[n].children)}

\* ------------------------------------------------------- claims

\* C1: starting from an empty tree and inserting distinct values in any
\* order, after every insert contains(v) is true for every value inserted
\* so far and false for every value never inserted.
C1_InsertThenContains ==
    Completed => \A v \in 1..MaxInsVal : Contains(heap, Root, v) = InTree(v)

\* C2: after any sequence of insert and remove calls, contains(v) is true
\* exactly for the values inserted and not subsequently removed.
C2_RefinesSet ==
    Completed => \A v \in 1..MaxVal : Contains(heap, Root, v) = InTree(v)

\* C3: remove(value) on a tree that does not contain value returns False
\* and leaves every node's keys, children and parent unchanged.
C3_RemoveAbsent ==
    [][(op' = "remove" /\ Contains(heap, Root, arg') = "False")
         => (result' = "False" /\ heap' = heap)]_vars

\* C4: insert(value) on a tree that already contains value, in a leaf or as
\* a key of an internal node, returns False and leaves every node unchanged.
C4_InsertPresent ==
    [][(op' = "insert" /\ arg' \in SubtreeKeys(heap, Root))
         => (result' = "False" /\ heap' = heap)]_vars

\* C5: after any completed insert or remove, every node of the tree holds
\* at most order keys.
C5_AtMostOrderKeys ==
    Completed => \A n \in TreeNodes : Len(heap[n].keys) <= order

\* C6: after any completed insert or remove, every non-root node holds at
\* least ceil(order/2) - 1 keys.
C6_MinOccupancy ==
    Completed => \A n \in TreeNodes \ {Root} :
                    Len(heap[n].keys) >= (order + 1) \div 2 - 1

\* C7: after any completed insert or remove, every node is a leaf with no
\* children or an internal node with exactly len(keys) + 1 children.
C7_ChildCount ==
    Completed => \A n \in TreeNodes :
                    IsLeaf(n) \/ Len(heap[n].children) = Len(heap[n].keys) + 1

\* C8: after any completed insert or remove, keys within each node are
\* strictly increasing, every key below children[i] lies strictly between
\* keys[i-1] and keys[i] of its parent, and no value is stored twice.
C8_SearchOrder ==
    Completed =>
      /\ \A n \in TreeNodes : \A i, j \in 1..Len(heap[n].keys) :
            i < j => heap[n].keys[i] < heap[n].keys[j]
      /\ \A n \in TreeNodes : \A i \in 1..Len(heap[n].children) :
            \A k \in SubtreeKeys(heap, heap[n].children[i]) :
               /\ (i - 1 \in 1..Len(heap[n].keys)) => heap[n].keys[i - 1] < k
               /\ (i \in 1..Len(heap[n].keys)) => k < heap[n].keys[i]
      /\ \A n, m \in TreeNodes :
            n # m => KeysOf(heap, n) \cap KeysOf(heap, m) = {}

\* C9: after any completed insert or remove, every node's parent reference
\* is none for the root only, and otherwise the unique node whose children
\* sequence contains that node.
C9_ParentRefs ==
    Completed => \A n \in TreeNodes :
       IF n = Root THEN heap[n].parent = None
       ELSE /\ heap[n].parent # None
            /\ \A m \in DOMAIN heap :
                  Has(heap[m].children, n) <=> m = heap[n].parent

\* C10: after any sequence of insert and remove calls, all leaves of the
\* tree are at the same depth from the root.
C10_LeavesLevel ==
    Completed => Cardinality(LeafDepths(heap, Root, 0)) = 1


\* C11: after any sequence of insert and remove calls that leaves the tree
\* non-empty, maximum() returns the largest and minimum() the smallest of
\* the values inserted and not removed.
C11_MaxMin ==
    (Completed /\ stored # {}) =>
       /\ IF Failed(Maximum(heap, Root, 1)) THEN FALSE
          ELSE \A v \in stored : v <= Maximum(heap, Root, 1).r
       /\ IF Failed(Maximum(heap, Root, 1)) THEN FALSE
          ELSE Maximum(heap, Root, 1).r \in stored
       /\ IF Failed(Minimum(heap, Root, 1)) THEN FALSE
          ELSE \A v \in stored : Minimum(heap, Root, 1).r <= v
       /\ IF Failed(Minimum(heap, Root, 1)) THEN FALSE
          ELSE Minimum(heap, Root, 1).r \in stored


\* C12: no insert or remove call on a tree built from empty ends in a
\* raised exception.
C12_NoException == op # "init" => ~IsExc(result)


\* C13: every insert and every remove finishes: neither the upward
\* propagation of splits nor the mutual recursion of remove, rebalance,
\* rotation and combine nests deeper than the bound on the call stack.
C13_Terminates == result # "RecursionError"

\* C13 happens: a remove returned after the underflow climbed from a leaf
\* to an internal node and a rotation ran below it.
C13_Witness ==
    /\ op = "remove" /\ result = "True"
    /\ \E e \in events : e.kind = "rotate"
    /\ \E e \in events : e.kind = "rebalance" /\ ~e.leaf
    /\ \E e \in events : e.kind = "combine"

\* C14: with order 4, once 0,-2,2,-4,4,6,8,10,-6,-8,-10,1,3,5,9 and then
\* -1,-3,-5,-9 are inserted, the root holds the single key 0 and has two
\* children with keys -6,-3 and 3,6; each child's parent is the root and
\* each grandchild's parent is the child that lists it.
C14_Scenario ==
    (Scripted = Len(Scenario) /\ Completed) =>
       /\ heap[Root].keys = <<0>>
       /\ Len(heap[Root].children) = 2
       /\ heap[heap[Root].children[1]].keys = <<-6, -3>>
       /\ heap[heap[Root].children[2]].keys = <<3, 6>>
       /\ \A i \in 1..Len(heap[Root].children) :
             /\ heap[heap[Root].children[i]].parent = Root
             /\ \A j \in 1..Len(heap[heap[Root].children[i]].children) :
                   heap[heap[heap[Root].children[i]].children[j]].parent
                      = heap[Root].children[i]

\* C14 happens: the last scripted insert, of -9, has returned and the tree
\* has grandchildren.
C14_Witness ==
    /\ Scripted = Len(Scenario) /\ op = "insert" /\ arg = -9
    /\ result = "True"
    /\ \E n \in TreeNodes : heap[n].parent \notin {None, Root}

\* C15: when a node that has children splits, root or not, its children go
\* to the two replacement nodes, so every key that was reachable from the
\* root before the insert is still reachable from it afterwards.
C15_SplitKeepsSubtrees ==
    [][(op' = "insert" /\ ~IsExc(result')) =>
          SubtreeKeys(heap, Root) \subseteq SubtreeKeys(heap', Root)]_vars

\* C16: when a remove merged underflowing nodes into their left siblings,
\* each left sibling received the separator followed by the node's keys and
\* children, and the parent lost the separator and the merged node: one key
\* and one child fewer.
C16_MergeLeft ==
    (Completed /\ \A e \in events :
                     e.kind = "rebalance" => e.branch = "combine_left") =>
       \A e \in events :
          e.kind = "combine" => e.joined /\ e.key_gone /\ e.child_gone

\* C17: a node without a left sibling, where no rotation applies, is merged
\* with its right sibling: rebalancing hands the child next to the node to
\* the merge, and every merge joins the child at some position with the
\* child just before it, folding in the parent key between the two; the
\* position of the left one is never before the first child.
C17_MergeRight ==
    \A e \in events :
       /\ (e.kind = "rebalance" /\ e.branch = "combine_right") =>
             e.pos = 0 /\ e.passed = 1
       /\ e.kind = "combine" =>
             e.left_pos >= 0 /\ e.child_pos = e.left_pos + 1 /\ e.joined

\* C17 happens: a remove emptied a first leaf, which was merged with its
\* right sibling, and then their parent, itself a first child, was merged
\* with its right sibling.
C17_Witness ==
    /\ op = "remove" /\ result = "True"
    /\ [kind |-> "rebalance", branch |-> "combine_right",
        leaf |-> TRUE, pos |-> 0, passed |-> 1] \in events
    /\ [kind |-> "rebalance", branch |-> "combine_right",
        leaf |-> FALSE, pos |-> 0, passed |-> 1] \in events
    /\ \E e \in events : e.kind = "combine" /\ e.left_pos = 0 /\ e.joined

\* C18: when a remove rotated keys towards an underflowing node from a
\* sibling with more than order children, the parent's separator moved down
\* into the node itself, the sibling's maximum (for a right sibling, its
\* minimum) became the new separator, and the keys of the tree are the same
\* set as before the rotation.
C18_Rotation ==
    Completed =>
       \A e \in events :
          e.kind = "rotate" => e.into_dest /\ e.moved_up /\ e.same_keys

\* C19: a remove of a value that is a key of an internal node returns true;
\* afterwards the value is absent from the tree, the predecessor that took
\* its place is stored exactly once, and every other key is still stored.
C19_InternalRemove ==
    [][\A e \in events' :
          (op' = "remove" /\ e.kind = "replace" /\ e.value = arg') =>
             /\ result' = "True"
             /\ arg' \notin SubtreeKeys(heap', Root)
             /\ Occurrences(heap', Root, e.pred) = 1
             /\ SubtreeKeys(heap, Root) \ {arg'}
                   \subseteq SubtreeKeys(heap', Root)]_vars

=========================================================================
